---- MODULE Spec2Model ----
(***************************************************************************)
(* A model of the LLM local web generator: the output parser               *)
(* (lib/parser.py), the file writer (lib/file_writer.py) and the           *)
(* generate.py script (retry loop, clean_code, save and serve steps).      *)
(*                                                                         *)
(* A text is a sequence of tokens; the string it stands for is the         *)
(* concatenation of its tokens.  A token is a single character ("{", "/",  *)
(* "\n", ...), a word of letters ("a", "html", "json", ...) or a lexeme of *)
(* markup ("<script", "src=x", "</script>", ...).  Every regular           *)
(* expression of the source is translated to an operator over token        *)
(* sequences that matches exactly where the expression matches on the      *)
(* concatenated string.                                                    *)
(***************************************************************************)
EXTENDS Integers, Sequences, FiniteSets, TLC

VARIABLES
    text,       \* parser: the model output handed to parse_model_output
    given,      \* parser: how the input text was put together (ghost)
    ppc,        \* parser: "called", the strategy to try, then "returned" or "raised"
    parts,      \* parser: the returned dict {"html", "css", "js"}
    via,        \* parser: the strategies attempted, in order (ghost)
    code,       \* clean_code: the argument of the first call
    once,       \* clean_code: clean_code(code)
    twice,      \* clean_code: clean_code(clean_code(code))
    cpc,        \* clean_code: "first" or "second" call to make, then "done"
    files,      \* file_writer: the content of each file of ./out
    exists,     \* file_writer: what exists of ./out and of its three files
    wpc,        \* file_writer: position of each caller inside write_files
    args,       \* file_writer: (html, css, js) of each caller's latest call
    calls,      \* file_writer: number of write_files calls started so far
    finished,   \* file_writer: the calls that returned, in that order (ghost)
    gpc,        \* generate.py: position in the script
    attempt,    \* generate.py: the loop variable of the retry loop
    ncalls,     \* generate.py: number of model.generate_content calls made (ghost)
    nok,        \* generate.py: number of those calls that returned a response (ghost)
    nsleeps,    \* generate.py: number of time.sleep(5) calls made (ghost)
    response,   \* generate.py: response.text of the successful call
    outdir,     \* generate.py: the files of out/, each present or not, with its content
    written,    \* generate.py: names of the files this run has written (ghost)
    serving     \* generate.py: TRUE once the preview server has been started

vars == <<text, given, ppc, parts, via, code, once, twice, cpc,
          files, exists, wpc, args, calls, finished,
          gpc, attempt, ncalls, nok, nsleeps, response, outdir, written, serving>>

parserVars == <<text, given, ppc, parts, via>>
cleanVars == <<code, once, twice, cpc>>
writerVars == <<files, exists, wpc, args, calls, finished>>
genVars == <<gpc, attempt, ncalls, nok, nsleeps, response, outdir, written, serving>>

(***************************************************************************)
(* Sequences of tokens.                                                    *)
(***************************************************************************)
Take(s, n) == SubSeq(s, 1, n)

Drop(s, n) == SubSeq(s, n + 1, Len(s))

\* s[i .. j-1]
Slice(s, i, j) == SubSeq(s, i, j - 1)

\* The pattern (a sequence of tokens) occurs in s at position i.
MatchAt(s, i, pat) ==
    /\ i >= 1
    /\ i + Len(pat) - 1 <= Len(s)
    /\ \A k \in 1..Len(pat) : s[i + k - 1] = pat[k]

\* The least position of a set of positions, 0 if there is none.
FirstOf(hits) == IF hits = {} THEN 0 ELSE CHOOSE i \in hits : \A j \in hits : i <= j

\* The greatest position of a set of positions, 0 if there is none.
LastOf(hits) == IF hits = {} THEN 0 ELSE CHOOSE i \in hits : \A j \in hits : j <= i

\* Position of the leftmost occurrence of pat in s at or after from, 0 if none.
Find(s, pat, from) ==
    FirstOf({i \in from..(Len(s) - Len(pat) + 1) : MatchAt(s, i, pat)})

\* \s of the regular expressions and of str.strip: the whitespace tokens.
IsSpace(t) == t \in {" ", "\n"}

\* [a-zA-Z]: the tokens made of letters only.
IsAlpha(t) == t \in {"a", "b", "html", "css", "js", "json", "null", "x"}

\* First position at or after i whose token does not satisfy \s.
RECURSIVE SkipSpace(_, _)
SkipSpace(s, i) ==
    IF i <= Len(s) /\ IsSpace(s[i]) THEN SkipSpace(s, i + 1) ELSE i

\* First position at or after i whose token is not a letter word.
RECURSIVE SkipAlpha(_, _)
SkipAlpha(s, i) ==
    IF i <= Len(s) /\ IsAlpha(s[i]) THEN SkipAlpha(s, i + 1) ELSE i

\* Position of the end of the line that holds position i: the first "\n" at or
\* after i, Len(s)+1 if there is none.
RECURSIVE LineEnd(_, _)
LineEnd(s, i) ==
    IF i <= Len(s) /\ s[i] # "\n" THEN LineEnd(s, i + 1) ELSE i

\* ^ under re.MULTILINE: the start of the text or just after a newline.
AtLineStart(s, i) == i = 1 \/ (i - 1 <= Len(s) /\ s[i - 1] = "\n")

\* str.strip()
RECURSIVE LStrip(_)
LStrip(s) == IF s # <<>> /\ IsSpace(Head(s)) THEN LStrip(Tail(s)) ELSE s

RECURSIVE RStrip(_)
RStrip(s) ==
    IF s # <<>> /\ IsSpace(s[Len(s)]) THEN RStrip(Take(s, Len(s) - 1)) ELSE s

Strip(s) == RStrip(LStrip(s))

(***************************************************************************)
(* generate.py: clean_code.  Its argument is a text of characters and      *)
(* letter words (the sections of the model's answer).                      *)
(***************************************************************************)
\* The backquote character (written "bq": a string of the module cannot hold it).
Bq == "bq"

Fence == <<Bq, Bq, Bq>>

\* re.sub(r"^[3 backquotes][a-zA-Z]*", "", code, flags=re.MULTILINE)
RECURSIVE SubFenceOpen(_, _)
SubFenceOpen(s, i) ==
    IF i > Len(s) THEN <<>>
    ELSE IF AtLineStart(s, i) /\ MatchAt(s, i, Fence)
         THEN SubFenceOpen(s, SkipAlpha(s, i + 3))
         ELSE <<s[i]>> \o SubFenceOpen(s, i + 1)

\* re.sub(pat, "", code) for a literal pattern: leftmost, non-overlapping.
RECURSIVE SubLiteral(_, _, _)
SubLiteral(s, pat, i) ==
    IF i > Len(s) THEN <<>>
    ELSE IF MatchAt(s, i, pat)
         THEN SubLiteral(s, pat, i + Len(pat))
         ELSE <<s[i]>> \o SubLiteral(s, pat, i + 1)

\* re.sub(open + ".*?" + close, "", code, flags=re.DOTALL): from each leftmost
\* opener to the first closer that starts after it.
\* c is the position of that closer for an opener at i, 0 without one.
RECURSIVE SubDelimited(_, _, _, _)
RECURSIVE SubDelimitedTo(_, _, _, _, _)
SubDelimited(s, open, close, i) ==
    IF i > Len(s) THEN <<>>
    ELSE SubDelimitedTo(s, open, close, i,
             IF MatchAt(s, i, open) THEN Find(s, close, i + Len(open)) ELSE 0)

SubDelimitedTo(s, open, close, i, c) ==
    IF c # 0 THEN SubDelimited(s, open, close, c + Len(close))
    ELSE <<s[i]>> \o SubDelimited(s, open, close, i + 1)

\* re.sub(r"^\s*//.*$", "", code, flags=re.MULTILINE): \s* runs over newlines
\* too, .* stops at the end of the line.
RECURSIVE SubLineComment(_, _)
SubLineComment(s, i) ==
    IF i > Len(s) THEN <<>>
    ELSE IF AtLineStart(s, i) /\ MatchAt(s, SkipSpace(s, i), <<"/", "/">>)
         THEN SubLineComment(s, LineEnd(s, SkipSpace(s, i)))
         ELSE <<s[i]>> \o SubLineComment(s, i + 1)

clean_code(c) ==
    LET c1 == SubFenceOpen(c, 1)
        c2 == SubLiteral(c1, Fence, 1)
        c3 == SubDelimited(c2, <<"<", "!", "-", "-">>, <<"-", "-", ">">>, 1)
        c4 == SubDelimited(c3, <<"/", "*">>, <<"*", "/">>, 1)
        c5 == SubLineComment(c4, 1)
    IN Strip(c5)

(***************************************************************************)
(* lib/parser.py.  The tokens of markup, with what the regular expressions *)
(* of _extract_html_parts see of them.                                     *)
(***************************************************************************)
\* re.IGNORECASE and text.lower(): the lower-case form of a token.
Lower(t) ==
    CASE t = "<SCRIPT" -> "<script"
      [] t = "</SCRIPT>" -> "</script>"
      [] t = "SRC=x" -> "src=x"
      [] OTHER -> t

\* The token holds the character ">" (always as its last character).
HasGt(t) ==
    Lower(t) \in {">", "</script>", "</style>", "</body>", "</head>", "</html>",
                  "</div>", "</main>"}

\* The token holds the letters "src", in either case: (?!src) under IGNORECASE.
HasSrc(t) == Lower(t) \in {"src=x", "data-src=x"}

\* The token starts with a word character, so that no \b lies in front of it
\* when a word character precedes it.
WordStart(t) == IsAlpha(t) \/ HasSrc(t)

\* Position of the first token after position i that holds ">", 0 if none.
GtAfter(s, i) == FirstOf({j \in (i + 1)..Len(s) : HasGt(s[j])})

\* Position of the first token after position j that is tok (in either case),
\* 0 if none.
TokAfter(s, j, tok) == FirstOf({k \in (j + 1)..Len(s) : Lower(s[k]) = tok})

NoMatch == [found |-> FALSE, from |-> 0, gt |-> 0, to |-> 0]

\* <script\b(?:(?!src)[\s\S])*?> : a word boundary after "<script", and no
\* "src" anywhere between it and the ">" that ends the opening tag at j.  (The
\* tempered dot may run over a ">" too, but a later ">" helps only when the
\* first one has no </script> behind it, and then no later one has.)
ScriptTagGuard(s, i, j) ==
    /\ ~WordStart(s[i + 1])
    /\ \A l \in (i + 1)..(j - 1) : ~HasSrc(s[l])

\* A match, at position i, of  open [^>]* > ([\s\S]*?) close : the opening tag
\* runs to the first ">" after i, the group to the first close after that.
\* nosrc tells the first expression for <script> from the others.
TagMatchTo(s, i, j, k, open, nosrc) ==
    IF Lower(s[i]) = open /\ j # 0 /\ k # 0 /\ (nosrc => ScriptTagGuard(s, i, j))
    THEN [found |-> TRUE, from |-> i, gt |-> j, to |-> k]
    ELSE NoMatch

TagMatchFrom(s, i, j, open, close, nosrc) ==
    TagMatchTo(s, i, j, IF j = 0 THEN 0 ELSE TokAfter(s, j, close), open, nosrc)

TagMatchAt(s, i, open, close, nosrc) ==
    TagMatchFrom(s, i, GtAfter(s, i), open, close, nosrc)

\* re.search: of the matches at the positions of the text, the leftmost.
Leftmost(ms) ==
    IF \A m \in ms : ~m.found THEN NoMatch
    ELSE CHOOSE m \in ms : m.found /\ \A n \in ms : n.found => m.from <= n.from

TagSearch(s, open, close, nosrc) ==
    Leftmost({TagMatchAt(s, i, open, close, nosrc) : i \in 1..Len(s)})

\* group(1) of a match.
Group1(s, m) == Slice(s, m.gt + 1, m.to)

\* group(0) of a match.
Group0(s, m) == Slice(s, m.from, m.to + 1)

\* "<html" in text.lower(): as one token, or as "<" in front of the word html.
HasHtmlTag(s) ==
    \E i \in 1..Len(s) :
        \/ Lower(s[i]) = "<html"
        \/ i < Len(s) /\ s[i] = "<" /\ s[i + 1] = "html"

\* re.sub(r"<head[\s\S]*?>[\s\S]*?</head>", "", text, flags=re.IGNORECASE)
RECURSIVE SubHead(_, _)
RECURSIVE SubHeadTo(_, _, _)
SubHead(s, i) ==
    IF i > Len(s) THEN <<>>
    ELSE SubHeadTo(s, i, TagMatchAt(s, i, "<head", "</head>", FALSE))

SubHeadTo(s, i, m) ==
    IF m.found THEN SubHead(s, m.to + 1) ELSE <<s[i]>> \o SubHead(s, i + 1)

\* re.search(r"<(div|main|section|article)[\s\S]*?>[\s\S]*?</\1>", ...)
BlockMatchAt(s, i) ==
    IF Lower(s[i]) = "<div" THEN TagMatchAt(s, i, "<div", "</div>", FALSE)
    ELSE TagMatchAt(s, i, "<main", "</main>", FALSE)

BlockSearch(s) == Leftmost({BlockMatchAt(s, i) : i \in 1..Len(s)})

(***************************************************************************)
(* JSON values, as json.loads returns them: a str, None or a dict (kept as *)
(* the list of its members in the order of the text; a later member        *)
(* overrides an earlier one of the same key).                              *)
(***************************************************************************)
JStr(s) == [t |-> "str", s |-> s, m |-> <<>>]

JNull == [t |-> "null", s |-> <<>>, m |-> <<>>]

JObj(m) == [t |-> "obj", s |-> <<>>, m |-> m]

\* k in obj
ObjHas(m, k) == \E i \in 1..Len(m) : m[i][1] = <<k>>

\* obj.get(k, "") of a dict that kept the first of two members with one key.
ObjGetFirst(m, k) ==
    IF ObjHas(m, k) THEN m[FirstOf({i \in 1..Len(m) : m[i][1] = <<k>>})][2]
    ELSE JStr(<<>>)

\* obj.get(k, "")
ObjGet(m, k) ==
    IF ObjHas(m, k) THEN m[LastOf({i \in 1..Len(m) : m[i][1] = <<k>>})][2]
    ELSE JStr(<<>>)

\* not v: None, the empty string and the empty dict are false.
Falsy(v) == v.t = "null" \/ (v.t = "str" /\ v.s = <<>>) \/ (v.t = "obj" /\ v.m = <<>>)

\* v or ""
OrEmpty(v) == IF Falsy(v) THEN JStr(<<>>) ELSE v

Fail == [ok |-> FALSE, v |-> JNull, next |-> 0]

\* A JSON string starting at the quote at position i: up to the next quote at
\* j; a raw newline inside it is an error (json is strict about control
\* characters).
ScanStringTo(s, i, j) ==
    IF j = 0 \/ (\E l \in (i + 1)..(j - 1) : s[l] = "\n") THEN Fail
    ELSE [ok |-> TRUE, v |-> JStr(Slice(s, i + 1, j)), next |-> j + 1]

ScanString(s, i) == ScanStringTo(s, i, Find(s, <<"\"">>, i + 1))

\* json.decoder: scan_once and JSONObject.  ScanValue parses the value that
\* starts at position i.  ScanMembers parses the members of an object from the
\* quote of a key at position i, acc being the members read so far: the key,
\* then the colon, then the value, then "," or "}" at position e.
RECURSIVE ScanValue(_, _)
RECURSIVE ScanObject(_, _)
RECURSIVE ScanMembers(_, _, _)
RECURSIVE ScanColon(_, _, _, _)
RECURSIVE ScanMember(_, _, _, _)
RECURSIVE ScanNext(_, _, _)
ScanValue(s, i) ==
    IF i > Len(s) THEN Fail
    ELSE IF s[i] = "\"" THEN ScanString(s, i)
    ELSE IF s[i] = "null" THEN [ok |-> TRUE, v |-> JNull, next |-> i + 1]
    ELSE IF s[i] = "{" THEN ScanObject(s, SkipSpace(s, i + 1))
    ELSE Fail

ScanObject(s, j) ==
    IF j <= Len(s) /\ s[j] = "}"
    THEN [ok |-> TRUE, v |-> JObj(<<>>), next |-> j + 1]
    ELSE ScanMembers(s, j, <<>>)

ScanMembers(s, i, acc) ==
    IF i > Len(s) \/ s[i] # "\"" THEN Fail
    ELSE ScanColon(s, ScanString(s, i), Find(s, <<"\"">>, i + 1) + 1, acc)

ScanColon(s, key, after, acc) ==
    IF ~key.ok \/ SkipSpace(s, after) > Len(s) \/ s[SkipSpace(s, after)] # ":" THEN Fail
    ELSE ScanMember(s, key,
                    ScanValue(s, SkipSpace(s, SkipSpace(s, after) + 1)), acc)

ScanMember(s, key, val, acc) ==
    IF ~val.ok THEN Fail
    ELSE ScanNext(s, SkipSpace(s, val.next), Append(acc, <<key.v.s, val.v>>))

ScanNext(s, e, got) ==
    IF e > Len(s) THEN Fail
    ELSE IF s[e] = "}" THEN [ok |-> TRUE, v |-> JObj(got), next |-> e + 1]
    ELSE IF s[e] = "," THEN ScanMembers(s, SkipSpace(s, e + 1), got)
    ELSE Fail

\* json.loads(s): one value, with whitespace around it and nothing else.
WholeValue(s, r) == IF r.ok /\ SkipSpace(s, r.next) = Len(s) + 1 THEN r ELSE Fail

json_loads(s) == WholeValue(s, ScanValue(s, SkipSpace(s, 1)))

(***************************************************************************)
(* lib/parser.py: the three strategies.                                    *)
(***************************************************************************)
None == [found |-> FALSE, block |-> <<>>]

\* re.sub(r"^[3 backquotes](?:json)?\s*", "", text, flags=re.IGNORECASE)
SubLeadingFence(s) ==
    IF MatchAt(s, 1, Fence)
    THEN LET j == IF Len(s) >= 4 /\ s[4] = "json" THEN 5 ELSE 4
         IN Drop(s, SkipSpace(s, j) - 1)
    ELSE s

\* re.sub(r"\s*[3 backquotes]$", "", text): $ is the end of the text, or the
\* place in front of a newline that ends the text.
\* q is where the whitespace that starts at i ends.
FenceAtEnd(s, q) ==
    /\ MatchAt(s, q, Fence)
    /\ \/ q + 3 = Len(s) + 1
       \/ q + 3 = Len(s) /\ s[Len(s)] = "\n"

RECURSIVE SubTrailingFence(_, _)
SubTrailingFence(s, i) ==
    IF i > Len(s) THEN <<>>
    ELSE IF FenceAtEnd(s, SkipSpace(s, i))
         THEN SubTrailingFence(s, SkipSpace(s, i) + 3)
         ELSE <<s[i]>> \o SubTrailingFence(s, i + 1)

\* re.search(r"\{[\s\S]*\}", text): from the first "{" to the last "}".
SpanOf(s, a, b) ==
    IF a = 0 \/ b = 0 THEN None ELSE [found |-> TRUE, block |-> Slice(s, a, b + 1)]

\* The non-greedy \{[\s\S]*?\} : from "{" at a to the first "}" after it.
SpanFromLazy(s, a) == SpanOf(s, a, FirstOf({b \in 1..Len(s) : s[b] = "}" /\ b > a}))

SpanFrom(s, a) == SpanOf(s, a, LastOf({b \in 1..Len(s) : s[b] = "}" /\ b > a}))

BraceSpan(s) == SpanFrom(s, Find(s, <<"{">>, 1))

_extract_first_json_block(s) ==
    IF s = <<>> THEN None
    ELSE BraceSpan(SubTrailingFence(SubLeadingFence(s), 1))

\* The dict that strategies 1 and 2 return for a parsed value, when they return.
NoParts == [html |-> JStr(<<>>), css |-> JStr(<<>>), js |-> JStr(<<>>)]

Recognized(r) ==
    r.ok /\ r.v.t = "obj" /\ \E k \in {"html", "css", "js"} : ObjHas(r.v.m, k)

PartsOf(m) ==
    [html |-> OrEmpty(ObjGet(m, "html")),
     css |-> OrEmpty(ObjGet(m, "css")),
     js |-> OrEmpty(ObjGet(m, "js"))]

\* The first <script> that is not a src include, else any <script>.
OrElse(m, other) == IF m.found THEN m ELSE other

ScriptMatch(s) ==
    OrElse(TagSearch(s, "<script", "</script>", TRUE),
           TagSearch(s, "<script", "</script>", FALSE))

\* m.group(1).strip() if m, else "".
Inner(s, m) == IF m.found THEN Strip(Group1(s, m)) ELSE <<>>

\* m.group(0).strip() if m, else "".
Outer(s, m) == IF m.found THEN Strip(Group0(s, m)) ELSE <<>>

\* html: the inside of <body>, else the text without its <head> when it has
\* an <html tag, else the first block-level element.
BodyOf(s, body_m) ==
    IF body_m.found THEN Inner(s, body_m)
    ELSE IF HasHtmlTag(s) THEN Strip(SubHead(s, 1))
    ELSE Outer(s, BlockSearch(s))

_extract_html_parts(s) ==
    [html |-> JStr(BodyOf(s, TagSearch(s, "<body", "</body>", FALSE))),
     css |-> JStr(Inner(s, TagSearch(s, "<style", "</style>", FALSE))),
     js |-> JStr(Inner(s, ScriptMatch(s)))]

\* any(parts[k].strip() for k in ("html", "css", "js"))
AnyContent(p) == \E k \in {"html", "css", "js"} : Strip(p[k].s) # <<>>

\* Strategy 1: json.loads of the whole text.
Returned(r) ==
    IF Recognized(r) THEN [ok |-> TRUE, parts |-> PartsOf(r.v.m)]
    ELSE [ok |-> FALSE, parts |-> NoParts]

DirectParse(s) == Returned(json_loads(s))

\* Strategy 2: json.loads of the first {...} block.
LoadBlock(b) == IF b.found THEN json_loads(b.block) ELSE Fail

BlockParse(s) == Returned(LoadBlock(_extract_first_json_block(s)))

\* Strategy 3: the HTML heuristics.
Useful(p) ==
    IF AnyContent(p) THEN [ok |-> TRUE, parts |-> p]
    ELSE [ok |-> FALSE, parts |-> NoParts]

HeuristicParse(s) == Useful(_extract_html_parts(s))

(***************************************************************************)
(* The model outputs the parser is run on.  A JSON answer is an object in  *)
(* the format the prompt of call_gemini asks for, written compactly or     *)
(* with whitespace around every token, with prose or markdown fences       *)
(* around it; an HTML answer is a sequence of markup blocks.               *)
(***************************************************************************)
MaxMembers == 2

MaxProse == 1

MaxBlocks == 3

Keys == {"html", "css", "js", "x"}

BlockComment == <<"/", "*", "*", "/">>

Values == {JStr(<<>>), JStr(<<"a">>), JNull, JStr(BlockComment), JObj(<<>>)}

\* The objects of at most n members, a member being <<key, value>>.
Objects(n) == UNION {[1..k -> Keys \X Values] : k \in 0..n}

\* The text of a JSON value; sp is the whitespace put around every token.
RECURSIVE Serialize(_, _)
RECURSIVE SerializeMembers(_, _, _)
Serialize(v, sp) ==
    CASE v.t = "str" -> <<"\"">> \o v.s \o <<"\"">>
      [] v.t = "null" -> <<"null">>
      [] v.t = "obj" -> <<"{">> \o sp \o SerializeMembers(v.m, 1, sp) \o <<"}">>

SerializeMembers(m, i, sp) ==
    IF i > Len(m) THEN <<>>
    ELSE (IF i > 1 THEN <<",">> \o sp ELSE <<>>)
         \o <<"\"", m[i][1], "\"">> \o sp \o <<":">> \o sp
         \o Serialize(m[i][2], sp) \o sp
         \o SerializeMembers(m, i + 1, sp)

FenceOpen == Fence \o <<"json", "\n">>

FenceClose == <<"\n">> \o Fence

ProsePieces == {<<"a">>, <<"{">>, <<"}">>, FenceOpen, FenceClose}

RECURSIVE Concat(_)
Concat(ss) == IF ss = <<>> THEN <<>> ELSE Head(ss) \o Concat(Tail(ss))

\* The texts made of at most n pieces.
Prose(n) == {Concat(ps) : ps \in UNION {[1..k -> ProsePieces] : k \in 0..n}}

BlockNames ==
    {"inline", "src", "datasrc", "SRC", "blank", "style", "body", "endbody",
     "html", "div"}

\* The markup of a block.
Markup(b) ==
    CASE b = "inline" -> <<"<script", ">", "a", "</script>">>
      [] b = "src" -> <<"<script", " ", "src=x", ">", "b", "</script>">>
      [] b = "datasrc" -> <<"<script", " ", "data-src=x", ">", "x", "</script>">>
      [] b = "SRC" -> <<"<SCRIPT", " ", "SRC=x", ">", "js", "</SCRIPT>">>
      [] b = "blank" -> <<"<script", ">", " ", "</script>">>
      [] b = "style" -> <<"<style", ">", "css", "</style>">>
      [] b = "body" -> <<"<body", ">">>
      [] b = "endbody" -> <<"</body>">>
      [] b = "html" -> <<"<html", ">", "<head", ">", "a", "</head>">>
      [] b = "div" -> <<"<div", ">", "a", "</div>">>

RECURSIVE MarkupOf(_)
MarkupOf(bs) == IF bs = <<>> THEN <<>> ELSE Markup(Head(bs)) \o MarkupOf(Tail(bs))

Docs(n) == UNION {[1..k -> BlockNames] : k \in 0..n}

\* A whole-text JSON answer, compact or spaced out.
WholeJson ==
    \E obj \in Objects(MaxMembers), sp \in {<<>>, <<" ">>} :
        /\ given = [kind |-> "whole", pre |-> sp, obj |-> obj, post |-> sp,
                    blocks |-> <<>>]
        /\ text = sp \o Serialize(JObj(obj), sp) \o sp

\* A JSON answer of one member, or none, inside prose and fences.
EmbeddedJson ==
    \E obj \in Objects(1), pre \in Prose(MaxProse), post \in Prose(MaxProse) :
        /\ given = [kind |-> "embedded", pre |-> pre, obj |-> obj, post |-> post,
                    blocks |-> <<>>]
        /\ text = pre \o Serialize(JObj(obj), <<>>) \o post

\* Prose and fences alone.
ProseOnly ==
    \E pre \in Prose(MaxProse), post \in Prose(MaxProse) :
        /\ given = [kind |-> "prose", pre |-> pre, obj |-> <<>>, post |-> post,
                    blocks |-> <<>>]
        /\ text = pre \o post

\* An HTML answer.
HtmlDoc ==
    \E bs \in Docs(MaxBlocks) :
        /\ given = [kind |-> "markup", pre |-> <<>>, obj |-> <<>>, post |-> <<>>,
                    blocks |-> bs]
        /\ text = MarkupOf(bs)

(***************************************************************************)
(* lib/parser.py: parse_model_output, one action per strategy.             *)
(***************************************************************************)
ParserIdle ==
    /\ text = <<>>
    /\ given = [kind |-> "none", pre |-> <<>>, obj |-> <<>>, post |-> <<>>,
                blocks |-> <<>>]
    /\ ppc = "idle"
    /\ parts = NoParts
    /\ via = <<>>

ParserInit ==
    /\ WholeJson \/ EmbeddedJson \/ ProseOnly \/ HtmlDoc
    /\ ppc = "called"
    /\ parts = NoParts
    /\ via = <<>>

\* if not text or not isinstance(text, str): raise ValueError
Enter ==
    /\ ppc = "called"
    /\ ppc' = IF text = <<>> THEN "raised" ELSE "direct"
    /\ UNCHANGED <<text, given, parts, via>>

\* 1) Try direct JSON parse
Direct ==
    /\ ppc = "direct"
    /\ via' = Append(via, 1)
    /\ \E r \in {DirectParse(text)} :
          IF r.ok THEN parts' = r.parts /\ ppc' = "returned"
          ELSE parts' = parts /\ ppc' = "block"
    /\ UNCHANGED <<text, given>>

\* 2) Try extracting JSON block and parsing
Block ==
    /\ ppc = "block"
    /\ via' = Append(via, 2)
    /\ \E r \in {BlockParse(text)} :
          IF r.ok THEN parts' = r.parts /\ ppc' = "returned"
          ELSE parts' = parts /\ ppc' = "heuristics"
    /\ UNCHANGED <<text, given>>

\* 3) HTML heuristics, 4) raise ValueError
Heuristics ==
    /\ ppc = "heuristics"
    /\ via' = Append(via, 3)
    /\ \E r \in {HeuristicParse(text)} :
          IF r.ok THEN parts' = r.parts /\ ppc' = "returned"
          ELSE parts' = parts /\ ppc' = "raised"
    /\ UNCHANGED <<text, given>>

ParserNext ==
    \/ Enter /\ UNCHANGED <<cleanVars, writerVars, genVars>>
    \/ Direct /\ UNCHANGED <<cleanVars, writerVars, genVars>>
    \/ Block /\ UNCHANGED <<cleanVars, writerVars, genVars>>
    \/ Heuristics /\ UNCHANGED <<cleanVars, writerVars, genVars>>

(***************************************************************************)
(* generate.py: clean_code applied to a text, and again to its result.     *)
(***************************************************************************)
MaxCode == 7

CodeChars == {Bq, "/", "*", "\n"}

CleanIdle ==
    /\ code = <<>>
    /\ once = <<>>
    /\ twice = <<>>
    /\ cpc = "idle"

CleanInit ==
    /\ code \in UNION {[1..k -> CodeChars] : k \in 0..MaxCode}
    /\ once = <<>>
    /\ twice = <<>>
    /\ cpc = "first"

CleanOnce ==
    /\ cpc = "first"
    /\ once' = clean_code(code)
    /\ cpc' = "second"
    /\ UNCHANGED <<code, twice>>

CleanTwice ==
    /\ cpc = "second"
    /\ twice' = clean_code(once)
    /\ cpc' = "done"
    /\ UNCHANGED <<code, once>>

CleanNext ==
    \/ CleanOnce /\ UNCHANGED <<parserVars, writerVars, genVars>>
    \/ CleanTwice /\ UNCHANGED <<parserVars, writerVars, genVars>>

(***************************************************************************)
(* lib/file_writer.py: write_files.  A file is opened with mode "w", which *)
(* creates or truncates it; what is written stays in the file object's     *)
(* buffer and reaches the file, at offset 0, when the with block closes it *)
(* (the contents are smaller than the buffer).                             *)
(***************************************************************************)
MaxCalls == 2

Writers == {1, 2}

FileNames == {"index.html", "styles.css", "app.js"}

Markups == {<<"a">>, <<"b", "b">>}

Sources == {<<>>, <<"a">>, <<"b", "b">>}

Triples == [html : Markups, css : Sources, js : Sources]

NoTriple == [html |-> <<>>, css |-> <<>>, js |-> <<>>]

\* index_content: the fixed shell around the markup.
ShellHead ==
    "<!doctype html>..<link rel=stylesheet href=./styles.css />..<body>"

ShellTail == "<script src=./app.js defer></script></body></html>"

IndexContent(html) == <<ShellHead, "\n">> \o html \o <<"\n", "\n", ShellTail>>

\* css or "/* empty */"
StylesContent(css) == IF css = <<>> THEN <<"/* empty */">> ELSE css

\* js or "// empty"
AppContent(js) == IF js = <<>> THEN <<"// empty">> ELSE js

\* What a call writes to each file.
ContentOf(t, f) ==
    CASE f = "index.html" -> IndexContent(t.html)
      [] f = "styles.css" -> StylesContent(t.css)
      [] f = "app.js" -> AppContent(t.js)

\* open(path, "r+"): the content of the file after it.
KeepContent(old) == old

\* open(path, "w"): the content of the file after it.
Truncate(old) == <<>>

\* The content of a file after data is written at its end (mode "a").
WriteAtEnd(old, data) == old \o data

\* The content of a file after data is written at offset 0.
WriteAtStart(old, data) == data \o Drop(old, Len(data))

\* The statements of write_files, in order.
Opened(f) ==
    CASE f = "index.html" -> "write_index"
      [] f = "styles.css" -> "write_styles"
      [] f = "app.js" -> "write_app"

OpenAt(f) ==
    CASE f = "index.html" -> "open_index"
      [] f = "styles.css" -> "open_styles"
      [] f = "app.js" -> "open_app"

Closed(f) ==
    CASE f = "index.html" -> "open_styles"
      [] f = "styles.css" -> "open_app"
      [] f = "app.js" -> "idle"

WriterIdle ==
    /\ files = [f \in FileNames |-> <<>>]
    /\ exists = {}
    /\ wpc = [w \in Writers |-> "off"]
    /\ args = [w \in Writers |-> NoTriple]
    /\ calls = 0
    /\ finished = <<>>

\* ./out is missing, or is there from an earlier run with files of its own.
WriterInit ==
    /\ \E old \in {<<>>, <<"c", "c", "c">>} :
          /\ files = [f \in FileNames |-> old]
          /\ exists = IF old = <<>> THEN {} ELSE {"out"} \cup FileNames
    /\ wpc = [w \in Writers |-> "idle"]
    /\ args = [w \in Writers |-> NoTriple]
    /\ calls = 0
    /\ finished = <<>>

\* write_files(html, css, js) is called.
Call(w) ==
    /\ wpc[w] = "idle"
    /\ calls < MaxCalls
    /\ \E t \in Triples : args' = [args EXCEPT ![w] = t]
    /\ wpc' = [wpc EXCEPT ![w] = "mkdir"]
    /\ calls' = calls + 1
    /\ UNCHANGED <<files, exists, finished>>

\* ensure_out_dir(): OUT_DIR.mkdir(exist_ok=True)
EnsureOutDir(w) ==
    /\ wpc[w] = "mkdir"
    /\ exists' = exists \cup {"out"}
    /\ wpc' = [wpc EXCEPT ![w] = "open_index"]
    /\ UNCHANGED <<files, args, calls, finished>>

\* with open(OUT_DIR / f, "w", encoding="utf-8") as fh:
OpenFile(w, f) ==
    /\ wpc[w] = OpenAt(f)
    /\ files' = [files EXCEPT ![f] = Truncate(files[f])]
    /\ exists' = exists \cup {f}
    /\ wpc' = [wpc EXCEPT ![w] = Opened(f)]
    /\ UNCHANGED <<args, calls, finished>>

\* fh.write(...) and the end of the with block; after app.js, the return.
WriteFile(w, f) ==
    /\ wpc[w] = Opened(f)
    /\ files' = [files EXCEPT ![f] = WriteAtStart(files[f], ContentOf(args[w], f))]
    /\ wpc' = [wpc EXCEPT ![w] = Closed(f)]
    /\ finished' = IF f = "app.js"
                   THEN Append(finished, [by |-> w, args |-> args[w]])
                   ELSE finished
    /\ UNCHANGED <<exists, args, calls>>

WriterStep(w) ==
    \/ Call(w)
    \/ EnsureOutDir(w)
    \/ \E f \in FileNames : OpenFile(w, f)
    \/ \E f \in FileNames : WriteFile(w, f)

\* One caller, one call after the other.
WriteNext == WriterStep(1) /\ UNCHANGED <<parserVars, cleanVars, genVars>>

\* Two callers, their statements interleaved.
RaceNext ==
    \E w \in Writers : WriterStep(w) /\ UNCHANGED <<parserVars, cleanVars, genVars>>

(***************************************************************************)
(* generate.py: the retry loop around model.generate_content, the three    *)
(* save steps and the serve step.                                          *)
(***************************************************************************)
\* for attempt in range(3)
MaxAttempts == 3

\* if attempt < 2
LastRetry == 2

MaxResponse == 3

ResponseTokens == {"[HTML]", "[CSS]", "[JS]", "a", Bq}

Responses == UNION {[1..k -> ResponseTokens] : k \in 0..MaxResponse}

NoFile == [present |-> FALSE, data |-> <<>>]

\* marker in text
Has(s, marker) == Find(s, <<marker>>, 1) # 0

\* text.split(marker)[0]
UpTo(s, i) == IF i = 0 THEN s ELSE Take(s, i - 1)

Before(s, marker) == UpTo(s, Find(s, <<marker>>, 1))

\* text.split(marker)[1]
Second(s, marker) == Before(Drop(s, Find(s, <<marker>>, 1)), marker)

\* The text each save step cleans and writes.
HtmlSection(s) ==
    IF Has(s, "[CSS]") THEN Strip(Before(Second(s, "[HTML]"), "[CSS]"))
    ELSE Strip(Second(s, "[HTML]"))

CssSection(s) ==
    IF Has(s, "[JS]") THEN Strip(Before(Second(s, "[CSS]"), "[JS]"))
    ELSE Strip(Second(s, "[CSS]"))

JsSection(s) == Strip(Second(s, "[JS]"))

\* Where the except clause of the retry loop goes after a failed attempt:
\* time.sleep(5) and the next round, or raise e, which the outer except
\* clause answers with exit().  (Without the raise, the script would go on
\* to the save steps.)
AfterFailureSwallowed(a) == IF a < LastRetry THEN "sleep" ELSE "save_html"

AfterFailure(a) == IF a < LastRetry THEN "sleep" ELSE "exited"

\* Where the loop goes after an attempt that returned: break.
AfterSuccess == "save_html"

\* The next round of the loop, or its end with no response bound.
AfterSleep(a) == IF a + 1 < MaxAttempts THEN "call" ELSE "exited"

GenIdle ==
    /\ gpc = "idle"
    /\ attempt = 0
    /\ ncalls = 0
    /\ nok = 0
    /\ nsleeps = 0
    /\ response = <<>>
    /\ outdir = [f \in FileNames |-> NoFile]
    /\ written = {}
    /\ serving = FALSE

\* out/ is empty or holds the index.html of an earlier run.
GenInit ==
    /\ gpc = "call"
    /\ attempt = 0
    /\ ncalls = 0
    /\ nok = 0
    /\ nsleeps = 0
    /\ response = <<>>
    /\ \E old \in {NoFile, [present |-> TRUE, data |-> <<"a">>]} :
          outdir = [f \in FileNames |-> IF f = "index.html" THEN old ELSE NoFile]
    /\ written = {}
    /\ serving = FALSE

\* response = model.generate_content(meta_prompt) returns; break
CallReturns ==
    /\ gpc = "call"
    /\ ncalls' = ncalls + 1
    /\ nok' = nok + 1
    /\ response' \in Responses
    /\ gpc' = AfterSuccess
    /\ UNCHANGED <<attempt, nsleeps, outdir, written, serving>>

\* model.generate_content raises
CallRaises ==
    /\ gpc = "call"
    /\ ncalls' = ncalls + 1
    /\ gpc' = AfterFailure(attempt)
    /\ UNCHANGED <<attempt, nok, nsleeps, response, outdir, written, serving>>

\* time.sleep(5), then the next value of attempt
Sleep ==
    /\ gpc = "sleep"
    /\ nsleeps' = nsleeps + 1
    /\ attempt' = attempt + 1
    /\ gpc' = AfterSleep(attempt)
    /\ UNCHANGED <<ncalls, nok, response, outdir, written, serving>>

\* One of the three save steps: if marker in text, clean the section and write
\* it to the file.
Save(at, marker, f, section, then) ==
    /\ gpc = at
    /\ IF Has(response, marker)
       THEN /\ outdir' = [outdir EXCEPT
                             ![f] = [present |-> TRUE, data |-> clean_code(section)]]
            /\ written' = written \cup {f}
       ELSE UNCHANGED <<outdir, written>>
    /\ gpc' = then
    /\ UNCHANGED <<attempt, ncalls, nok, nsleeps, response, serving>>

SaveHtml == Save("save_html", "[HTML]", "index.html", HtmlSection(response), "save_css")

SaveCss == Save("save_css", "[CSS]", "styles.css", CssSection(response), "save_js")

SaveJs == Save("save_js", "[JS]", "app.js", JsSection(response), "serve")

\* if not os.path.exists(index_path) or os.path.getsize(index_path) == 0
Serve ==
    /\ gpc = "serve"
    /\ IF ~outdir["index.html"].present \/ outdir["index.html"].data = <<>>
       THEN gpc' = "warned" /\ serving' = serving
       ELSE gpc' = "serving" /\ serving' = TRUE
    /\ UNCHANGED <<attempt, ncalls, nok, nsleeps, response, outdir, written>>

GenNext ==
    \/ CallReturns /\ UNCHANGED <<parserVars, cleanVars, writerVars>>
    \/ CallRaises /\ UNCHANGED <<parserVars, cleanVars, writerVars>>
    \/ Sleep /\ UNCHANGED <<parserVars, cleanVars, writerVars>>
    \/ SaveHtml /\ UNCHANGED <<parserVars, cleanVars, writerVars>>
    \/ SaveCss /\ UNCHANGED <<parserVars, cleanVars, writerVars>>
    \/ SaveJs /\ UNCHANGED <<parserVars, cleanVars, writerVars>>
    \/ Serve /\ UNCHANGED <<parserVars, cleanVars, writerVars>>

(***************************************************************************)
(* The specifications: each part of the program on its own, and all.       *)
(***************************************************************************)
InitParse == ParserInit /\ CleanIdle /\ WriterIdle /\ GenIdle

SpecParse == InitParse /\ [][ParserNext]_vars

InitClean == ParserIdle /\ CleanInit /\ WriterIdle /\ GenIdle

SpecClean == InitClean /\ [][CleanNext]_vars

InitWrite == ParserIdle /\ CleanIdle /\ WriterInit /\ GenIdle

SpecWrite == InitWrite /\ [][WriteNext]_vars

SpecRace == InitWrite /\ [][RaceNext]_vars

InitGen == ParserIdle /\ CleanIdle /\ WriterIdle /\ GenInit

SpecGen == InitGen /\ [][GenNext]_vars

Init == InitParse \/ InitClean \/ InitWrite \/ InitGen

Next == ParserNext \/ CleanNext \/ RaceNext \/ GenNext

Spec == Init /\ [][Next]_vars

(***************************************************************************)
(* Properties of parse_model_output (SpecParse).                           *)
(***************************************************************************)
Fields == {"html", "css", "js"}

Done == ppc \in {"returned", "raised"}

\* What strategy n makes of the text.
Outcome(n) ==
    CASE n = 1 -> DirectParse(text)
      [] n = 2 -> BlockParse(text)
      [] n = 3 -> HeuristicParse(text)

\* The strategies are attempted in order and the first success is returned.
FirstSuccessWins ==
    /\ via \in {<<>>, <<1>>, <<1, 2>>, <<1, 2, 3>>}
    /\ ppc = "returned" =>
           /\ via # <<>>
           /\ Outcome(Len(via)).ok
           /\ parts = Outcome(Len(via)).parts
           /\ \A n \in 1..(Len(via) - 1) : ~Outcome(n).ok
    /\ ppc = "raised" /\ text # <<>> => via = <<1, 2, 3>>

\* The whole text is a JSON object with at least one of the keys.
WholeObject ==
    /\ given.kind = "whole"
    /\ \E i \in 1..Len(given.obj) : given.obj[i][1] \in Fields

\* The value the object of the text gives key k (the last member of that
\* key), the empty string when it has no such member.
ValueOf(obj, k) ==
    IF \E i \in 1..Len(obj) : obj[i][1] = k
    THEN obj[LastOf({i \in 1..Len(obj) : obj[i][1] = k})][2]
    ELSE JStr(<<>>)

\* That value, with null, the empty string and the empty object as the empty
\* string.
NormalOf(obj, k) ==
    IF ValueOf(obj, k) \in {JNull, JStr(<<>>), JObj(<<>>)} THEN JStr(<<>>)
    ELSE ValueOf(obj, k)

\* C1, as stated: the strategies are tried in the order 1, 2, 3 and the first
\* success is returned; for a whole-text JSON object with one of the keys the
\* returned triple is exactly the values of the keys, a missing key as the
\* empty string, and only strategy 1 is involved.
C1_ExactValues ==
    /\ FirstSuccessWins
    /\ WholeObject /\ Done =>
           /\ ppc = "returned"
           /\ via = <<1>>
           /\ \A k \in Fields : parts[k] = ValueOf(given.obj, k)

\* C1, amended: the same, but a key whose value is null, the empty string or
\* an empty object comes back as the empty string, like a missing key.
C1_NormalizedValues ==
    /\ FirstSuccessWins
    /\ WholeObject /\ Done =>
           /\ ppc = "returned"
           /\ via = <<1>>
           /\ \A k \in Fields : parts[k] = NormalOf(given.obj, k)

\* C1: a whole-text object with a string, a null and a missing key has been
\* returned by strategy 1.
C1_Witness ==
    /\ WholeObject
    /\ ppc = "returned"
    /\ via = <<1>>
    /\ parts.html = JStr(<<"a">>)
    /\ ValueOf(given.obj, "css") = JNull
    /\ \A i \in 1..Len(given.obj) : given.obj[i][1] # "js"

\* C2: every returned triple has a non-empty field (a structured parse whose
\* three fields are empty falls through to the next strategy).
C2_SomeFieldNonEmpty ==
    ppc = "returned" => \E k \in Fields : parts[k] # JStr(<<>>)

\* Strategy n yields usable content: it succeeds with a non-empty field.
Usable(n) == Outcome(n).ok /\ \E k \in Fields : Outcome(n).parts[k] # JStr(<<>>)

\* C3: parse_model_output raises if and only if none of the three strategies
\* yields usable content.
C3_RaisesIffNothingUsable ==
    Done => (ppc = "raised" <=> \A n \in 1..3 : ~Usable(n))

\* The text is a JSON object of keys among html, css, js inside prose and
\* fences.
EmbeddedObject ==
    /\ given.kind = "embedded"
    /\ given.obj # <<>>
    /\ \A i \in 1..Len(given.obj) : given.obj[i][1] \in Fields

\* What parse_model_output returns for the JSON block alone.
BlockAlone == DirectParse(Serialize(JObj(given.obj), <<>>))

\* From the first "{" of the text to its last "}".
FirstToLast(s) ==
    SubSeq(s, FirstOf({i \in 1..Len(s) : s[i] = "{"}),
              LastOf({i \in 1..Len(s) : s[i] = "}"}))

\* C4, as stated: whatever prose and fences surround the JSON block, the
\* triple returned is the one returned for the block alone, and the block is
\* the span from the first "{" to the last "}" of the text.
C4_SameAsBlockAlone ==
    EmbeddedObject /\ Done =>
        /\ ppc = "returned"
        /\ parts = BlockAlone.parts
        /\ _extract_first_json_block(text) =
               [found |-> TRUE, block |-> FirstToLast(text)]

\* No "{" in the prose before the block and no "}" in the prose after it.
NoStrayBrace ==
    /\ \A i \in 1..Len(given.pre) : given.pre[i] # "{"
    /\ \A i \in 1..Len(given.post) : given.post[i] # "}"

\* C4, amended: the block is always the span from the first "{" to the last
\* "}" of the text, and the triple returned is the one returned for the block
\* alone when the prose before it has no "{" and the prose after it no "}".
C4_SameWithoutStrayBrace ==
    EmbeddedObject /\ Done =>
        /\ _extract_first_json_block(text) =
               [found |-> TRUE, block |-> FirstToLast(text)]
        /\ NoStrayBrace => ppc = "returned" /\ parts = BlockAlone.parts

\* C4: a fenced JSON block has been returned by strategy 2.
C4_Witness ==
    /\ EmbeddedObject
    /\ given.pre = FenceOpen
    /\ given.post = FenceClose
    /\ ppc = "returned"
    /\ via = <<1, 2>>
    /\ parts.html = JStr(<<"a">>)

\* What clean_code removes: a fence, an HTML comment, a block comment, a line
\* that is a // comment.
HasFence(s) == Find(s, Fence, 1) # 0

HasHtmlComment(s) ==
    \E i \in 1..Len(s) :
        MatchAt(s, i, <<"<", "!", "-", "-">>) /\ Find(s, <<"-", "-", ">">>, i + 4) # 0

HasBlockComment(s) ==
    \E i \in 1..Len(s) :
        MatchAt(s, i, <<"/", "*">>) /\ Find(s, <<"*", "/">>, i + 2) # 0

HasLineComment(s) ==
    \E i \in 1..Len(s) : AtLineStart(s, i) /\ MatchAt(s, SkipSpace(s, i), <<"/", "/">>)

\* C8: no field of a returned triple holds a fence, an HTML comment, a block
\* comment or a whole-line // comment: each has been through clean_code.
C8_FieldsStripped ==
    ppc = "returned" =>
        \A k \in Fields :
            /\ ~HasFence(parts[k].s)
            /\ ~HasHtmlComment(parts[k].s)
            /\ ~HasBlockComment(parts[k].s)
            /\ ~HasLineComment(parts[k].s)

\* The script blocks of an HTML answer, and the content of each.
ScriptBlocks == {"inline", "src", "datasrc", "SRC", "blank"}

\* The script blocks whose opening tag has a src attribute.
WithSrcAttribute == {"src", "SRC"}

ScriptContent(b) ==
    CASE b = "inline" -> <<"a">>
      [] b = "src" -> <<"b">>
      [] b = "datasrc" -> <<"x">>
      [] b = "SRC" -> <<"js">>
      [] b = "blank" -> <<>>

\* The first block of bs that is in the set, 0 if none.
FirstIn(bs, set) == FirstOf({i \in 1..Len(bs) : bs[i] \in set})

\* The block whose content the script field is to hold.
ExpectedScript(bs) ==
    IF FirstIn(bs, ScriptBlocks \ WithSrcAttribute) # 0
    THEN bs[FirstIn(bs, ScriptBlocks \ WithSrcAttribute)]
    ELSE bs[FirstIn(bs, ScriptBlocks)]

\* C9: the script field of the heuristics is the content of the first script
\* block whose opening tag has no src attribute, of the first script block if
\* every one has a src attribute.
C9_FirstScriptWithoutSrc ==
    /\ given.kind = "markup"
    /\ FirstIn(given.blocks, ScriptBlocks) # 0
    /\ ppc = "returned"
    => parts.js = JStr(ScriptContent(ExpectedScript(given.blocks)))

(***************************************************************************)
(* Properties of clean_code (SpecClean).                                   *)
(***************************************************************************)
\* C7: clean_code is idempotent: clean_code(clean_code(x)) = clean_code(x).
C7_Idempotent == cpc = "done" => twice = once

(***************************************************************************)
(* Properties of write_files (SpecWrite, SpecRace).                        *)
(***************************************************************************)
\* What the claim has a call of triple t leave in file f.
Expected(t, f) ==
    CASE f = "index.html" -> <<ShellHead, "\n">> \o t.html \o <<"\n", "\n", ShellTail>>
      [] f = "styles.css" -> IF t.css = <<>> THEN <<"/* empty */">> ELSE t.css
      [] f = "app.js" -> IF t.js = <<>> THEN <<"// empty">> ELSE t.js

\* C5: between calls, out/ holds the three files and each holds what the last
\* call alone puts there: nothing of an earlier call or an earlier run.
C5_LastCallDecides ==
    wpc[1] = "idle" /\ finished # <<>> =>
        /\ {"out"} \cup FileNames \subseteq exists
        /\ \A f \in FileNames : files[f] = Expected(finished[Len(finished)].args, f)

\* C5: a second call has returned whose stylesheet and script are shorter
\* than those of the first.
C5_Witness ==
    /\ wpc[1] = "idle"
    /\ Len(finished) = 2
    /\ finished[1].args.css = <<"b", "b">>
    /\ finished[1].args.js = <<"b", "b">>
    /\ finished[2].args.css = <<"a">>
    /\ finished[2].args.js = <<>>

\* Two calls, one by each caller, have both returned.
BothFinished ==
    /\ calls = 2
    /\ Len(finished) = 2
    /\ finished[1].by # finished[2].by

\* data, then what of other lies beyond the length of data.
Over(other, data) ==
    data \o SubSeq(other, Len(data) + 1, Len(other))

\* File f starts with all that call i wrote to it, and has nothing else but
\* the end of what the other call wrote, where that was longer.
From(f, i) ==
    files[f] \in {Expected(finished[i].args, f),
                  Over(Expected(finished[3 - i].args, f), Expected(finished[i].args, f))}

\* C6, as stated: once two concurrent calls have both returned, the three
\* files all hold what the call that returned last wrote.
C6_LastWriterWins ==
    BothFinished => \A f \in FileNames : files[f] = Expected(finished[2].args, f)

\* C6, amended: once two concurrent calls have both returned, each file starts
\* with all that one of the calls wrote to it, followed at most by the end of
\* the other call's longer content; for app.js that call is the one that
\* returned last, for index.html and styles.css it is either.
C6_EachFileFromOneCall ==
    BothFinished =>
        /\ From("app.js", 2)
        /\ \A f \in FileNames : From(f, 1) \/ From(f, 2)

\* C6: both calls have returned, index.html is the first call's and app.js
\* the last call's.
C6_Witness ==
    /\ BothFinished
    /\ finished[1].args.html # finished[2].args.html
    /\ finished[1].args.js # finished[2].args.js
    /\ files["index.html"] = Expected(finished[1].args, "index.html")
    /\ files["app.js"] = Expected(finished[2].args, "app.js")

(***************************************************************************)
(* Properties of generate.py (SpecGen).                                    *)
(***************************************************************************)
\* C10: at most 3 calls of the model, none after one that succeeded, a sleep
\* before each retry, and after 3 failed calls the script has exited with no
\* file written and no server started.
C10_RetryThenExit ==
    [][/\ ncalls' <= 3
       /\ nok >= 1 => ncalls' = ncalls
       /\ ncalls' = ncalls + 1 => nsleeps = ncalls
       /\ ncalls' = 3 /\ nok' = 0 =>
              gpc' = "exited" /\ written' = {} /\ ~serving']_vars

\* C10: three calls have failed, with a sleep before each retry, and the
\* script has exited, leaving the index.html of an earlier run unserved.
C10_Witness ==
    /\ gpc = "exited"
    /\ ncalls = 3
    /\ nok = 0
    /\ nsleeps = 2
    /\ outdir["index.html"].present
    /\ ~serving

====
